---- MODULE Spec2Model ----
(***************************************************************************)
(* Model of file_futures (src/src/lib.rs): the AsyncFile trait, its seven  *)
(* chain-starting methods, the seven futures Seek, SyncAll, SyncData,      *)
(* SetLen, GetMetadata, TryClone, SetPermissions, their Future::poll and   *)
(* their delegating AsyncFile implementations, driven by a caller that     *)
(* owns values and constructs futures on them.  Under Spec the caller      *)
(* polls the futures and may drop them before they complete; under         *)
(* SpecCall it calls the poll_* methods of the values it built.  The       *)
(* primitives of tokio_fs::file::File are the environment: each attempt is *)
(* answered Ready, NotReady or Err(e); of the file's state only its length *)
(* is kept.                                                                *)
(***************************************************************************)
EXTENDS Integers, Sequences, FiniteSets, TLC

\* ---------------------------------------------------------------- bounds
MaxComps == 2      \* futures constructed in one run
MaxPolls == 2      \* Future::poll calls in one run
MaxHandles == 2    \* file handles (the opened one and clones)
MaxSize == 1       \* largest length / offset

Handles == 1..MaxHandles
Cids == 1..MaxComps
Sizes == 1..MaxSize
Errs == {"NotFound", "PermissionDenied"}

\* ---------------------------------------------------------------- values
\* Option::None of an `inner: Option<T>` slot
None == [tag |-> "None"]
\* a tokio_fs::file::File, identified by its handle
File(h) == [tag |-> "File", h |-> h]

Unit == [k |-> "unit"]
Pos(n) == [k |-> "pos", n |-> n]         \* SeekFrom::Start(n)
Size(n) == [k |-> "size", n |-> n]       \* u64
Perm(ro) == [k |-> "perm", ro |-> ro]    \* Permissions (readonly flag)
Offset(n) == [k |-> "offset", n |-> n]   \* u64 returned by poll_seek
Meta(n) == [k |-> "metadata", size |-> n]   \* Metadata (its len)
Clone(h) == [k |-> "file", h |-> h]
IoError(e) == [k |-> "error", e |-> e]

\* Poll<T, Error>: Ok(Async::Ready(v)), Ok(Async::NotReady), Err(e);
\* Panic is the unwinding out of Option::unwrap on None
Ready(v) == [st |-> "Ready", val |-> v]
NotReady == [st |-> "NotReady", val |-> Unit]
Err(e) == [st |-> "Err", val |-> IoError(e)]
Panic == [st |-> "Panic", val |-> Unit]

Kinds == {"Seek", "SyncAll", "SyncData", "SetLen", "GetMetadata", "TryClone",
          "SetPermissions"}
Ops == {"poll_seek", "poll_sync_all", "poll_sync_data", "poll_set_len",
        "poll_metadata", "poll_try_clone", "poll_set_permissions"}

\* the arguments a caller can pass to each primitive
ArgsOf(op) ==
  CASE op = "poll_seek" -> {Pos(n) : n \in Sizes}
    [] op = "poll_set_len" -> {Size(n) : n \in Sizes}
    [] op = "poll_set_permissions" -> {Perm(ro) : ro \in BOOLEAN}
    [] OTHER -> {Unit}

\* what the runtime answers to one attempt of a primitive
Answers == {"Ready", "NotReady"} \cup Errs

\* pub struct Seek<T> { pos, inner: Option<T> } and its six siblings; cid
\* names the instance
Comp(kind, cid, param, inner) ==
  [tag |-> kind, cid |-> cid, param |-> param, inner |-> inner]

IsComp(obj) == obj.tag \in Kinds

VARIABLES
  owned,    \* values the caller owns: [obj, by]; by = future whose poll yielded obj
  nextCid,  \* next instance name
  nextH,    \* next unused handle
  closed,   \* closed[h] = number of times handle h was released (dropped)
  flen,     \* length of the underlying file
  origin,   \* origin[c] = [over, after, recv]: the receiver future, the future
            \* whose poll yielded the receiver, the receiver itself
  trace,    \* history of the poll calls, with the primitive calls they made
  called    \* the poll_* call whose result the caller holds, if any

vars == <<owned, nextCid, nextH, closed, flen, origin, trace, called>>

\* ------------------------------------------------------- helper functions
\* the file handle at the bottom of a value, 0 when a slot on the way is empty
RECURSIVE BaseOf(_)
BaseOf(obj) ==
  IF obj.tag = "File" THEN obj.h
  ELSE IF obj.tag = "None" THEN 0
  ELSE BaseOf(obj.inner)

\* number of futures wrapped around the bottom of a value
RECURSIVE Depth(_)
Depth(obj) == IF IsComp(obj) THEN 1 + Depth(obj.inner) ELSE 0

\* the futures a value consists of, outermost first
RECURSIVE Layers(_)
Layers(obj) == IF IsComp(obj) THEN <<obj>> \o Layers(obj.inner) ELSE <<>>

\* variant: the value is forgotten, its handle stays open
Release_Leak(obj, cl) == cl

\* releasing (dropping) a value closes the handle it holds
Release(obj, cl) ==
  IF BaseOf(obj) = 0 THEN cl ELSE [cl EXCEPT ![BaseOf(obj)] = @ + 1]

\* ------------------------------------------------ the primitive on a File
\* value a completed primitive yields (tokio_fs, reached through lib.rs:115-143)
BaseValue(op, arg) ==
  CASE op = "poll_seek" -> Offset(arg.n)
    [] op = "poll_metadata" -> Meta(flen)
    [] op = "poll_try_clone" -> Clone(nextH)
    [] OTHER -> Unit

\* impl AsyncFile for tokio_fs::file::File: one attempt of the primitive
FilePrim(obj, op, arg, ans) ==
  LET res == IF ans = "Ready" THEN Ready(BaseValue(op, arg))
             ELSE IF ans = "NotReady" THEN NotReady
             ELSE Err(ans)
  IN [res |-> res, obj |-> obj,
      calls |-> <<[h |-> obj.h, op |-> op, arg |-> arg, res |-> res]>>]

\* ----------------------------------------- delegating AsyncFile of a future
\* variant: the value is read out of the slot without emptying it
Take_Keep(slot) == [val |-> slot, left |-> slot]

\* Option::take: the value moved out and what is left in the slot
Take(slot) == [val |-> slot, left |-> None]

\* variant: the poll_sync_data methods forward to poll_sync_all
DelegOp_SyncAll(kind, op) == IF op = "poll_sync_data" THEN "poll_sync_all" ELSE op

\* the inner method a delegating poll_* method of a future calls
DelegOp(kind, op) == op

\* the argument a delegating poll_* method passes on
DelegArg(kind, op, arg) == arg

\* variant: the slot is refilled only when the inner call completed
DelegRestore_OnlyReady(left, r) ==
  [slot |-> IF r.res.st = "Ready" THEN r.obj ELSE left, res |-> r.res]

\* `self.inner = Some(inner); res`: the slot after the delegated call and
\* the result handed up; when the inner call unwinds, the local is dropped
DelegRestore(left, r) ==
  [slot |-> IF r.res = Panic THEN left ELSE r.obj, res |-> r.res]

\* poll_* called on any AsyncFile value: a File, or a future forwarding to
\* the value in its slot
RECURSIVE Forward(_, _, _, _)
Forward(obj, op, arg, ans) ==
  IF obj.tag = "File" THEN FilePrim(obj, op, arg, ans)
  ELSE LET t == Take(obj.inner) IN
    IF t.val = None
    THEN [res |-> Panic, obj |-> obj, calls |-> <<>>]
    ELSE LET r == Forward(t.val, DelegOp(obj.tag, op),
                          DelegArg(obj.tag, op, arg), ans)
             d == DelegRestore(t.left, r)
         IN [res |-> d.res, obj |-> [obj EXCEPT !.inner = d.slot],
             calls |-> r.calls]

\* --------------------------------------------------------- Future::poll
\* the primitive each future's poll invokes on its inner value
PollOp(kind) ==
  CASE kind = "Seek" -> "poll_seek"
    [] kind = "SyncAll" -> "poll_sync_all"
    [] kind = "SyncData" -> "poll_sync_all"
    [] kind = "SetLen" -> "poll_set_len"
    [] kind = "GetMetadata" -> "poll_metadata"
    [] kind = "TryClone" -> "poll_try_clone"
    [] kind = "SetPermissions" -> "poll_set_permissions"

\* the argument it passes: self.pos, self.size, self.perm.clone()
PollArg(self) == self.param

\* futures whose Item is a pair (T, value)
PairKinds == {"Seek", "GetMetadata", "TryClone"}

\* variant: the not-yet-complete arm hands the value over as if complete
PollMatch_EarlyYield(kind, r) ==
  IF r.res.st = "Ready"
  THEN [st |-> "Ready",
        val |-> IF kind \in PairKinds THEN r.res.val ELSE Unit,
        obj |-> r.obj]
  ELSE IF r.res.st = "NotReady"
  THEN [st |-> "Ready", val |-> Unit, obj |-> r.obj]
  ELSE IF r.res.st = "Err"
  THEN [st |-> "Err", val |-> r.res.val, obj |-> None]
  ELSE [st |-> "Panic", val |-> Unit, obj |-> None]

\* variant: the failure arm hands the value over with the error
PollMatch_ErrYields(kind, r) ==
  IF r.res.st = "Ready"
  THEN [st |-> "Ready",
        val |-> IF kind \in PairKinds THEN r.res.val ELSE Unit,
        obj |-> r.obj]
  ELSE IF r.res.st = "NotReady"
  THEN [st |-> "NotReady", val |-> Unit, obj |-> None]
  ELSE IF r.res.st = "Err"
  THEN [st |-> "Err", val |-> r.res.val, obj |-> r.obj]
  ELSE [st |-> "Panic", val |-> Unit, obj |-> None]

\* variant: the failure arm replaces the error by one of its own
PollMatch_OtherError(kind, r) ==
  IF r.res.st = "Ready"
  THEN [st |-> "Ready",
        val |-> IF kind \in PairKinds THEN r.res.val ELSE Unit,
        obj |-> r.obj]
  ELSE IF r.res.st = "NotReady"
  THEN [st |-> "NotReady", val |-> Unit, obj |-> None]
  ELSE IF r.res.st = "Err"
  THEN [st |-> "Err", val |-> IoError("Other"), obj |-> None]
  ELSE [st |-> "Panic", val |-> Unit, obj |-> None]

\* variant: the failure arm reports not-yet-complete
PollMatch_SwallowErr(kind, r) ==
  IF r.res.st = "Ready"
  THEN [st |-> "Ready",
        val |-> IF kind \in PairKinds THEN r.res.val ELSE Unit,
        obj |-> r.obj]
  ELSE IF r.res.st = "NotReady"
  THEN [st |-> "NotReady", val |-> Unit, obj |-> None]
  ELSE IF r.res.st = "Err"
  THEN [st |-> "NotReady", val |-> Unit, obj |-> None]
  ELSE [st |-> "Panic", val |-> Unit, obj |-> None]

\* variant: the completion arm hands the handle over without the value
PollMatch_NoValue(kind, r) ==
  IF r.res.st = "Ready"
  THEN [st |-> "Ready", val |-> Unit, obj |-> r.obj]
  ELSE IF r.res.st = "NotReady"
  THEN [st |-> "NotReady", val |-> Unit, obj |-> None]
  ELSE IF r.res.st = "Err"
  THEN [st |-> "Err", val |-> r.res.val, obj |-> None]
  ELSE [st |-> "Panic", val |-> Unit, obj |-> None]

\* the match of poll on the primitive's result r (r.obj is the local
\* `inner` after the call): what poll returns and the value it hands over;
\* when the call unwound there is no return (Panic)
PollMatch(kind, r) ==
  IF r.res.st = "Ready"
  THEN [st |-> "Ready",
        val |-> IF kind \in PairKinds THEN r.res.val ELSE Unit,
        obj |-> r.obj]
  ELSE IF r.res.st = "NotReady"
  THEN [st |-> "NotReady", val |-> Unit, obj |-> None]
  ELSE IF r.res.st = "Err"
  THEN [st |-> "Err", val |-> r.res.val, obj |-> None]
  ELSE [st |-> "Panic", val |-> Unit, obj |-> None]

\* one call of poll on the future self: the future afterwards, the return,
\* the primitive calls made and the value dropped at the end of the call
PollOnce(self, ans) ==
  LET t == Take(self.inner) IN
  IF t.val = None
  THEN [self |-> self, ret |-> PollMatch(self.tag, [res |-> Panic, obj |-> None]),
        calls |-> <<>>, dropped |-> None]
  ELSE LET r == Forward(t.val, PollOp(self.tag), PollArg(self), ans)
           m == PollMatch(self.tag, r)
       IN [self |-> [self EXCEPT !.inner = t.left], ret |-> m,
           calls |-> r.calls,
           dropped |-> IF m.obj = None THEN r.obj ELSE None]

\* -------------------------------------------------------------- history
NoCall == [ev |-> "none"]
PollsOf(c) == SelectSeq(trace, LAMBDA e : e.cid = c)

\* effect of the primitive calls of one step on the length of the underlying
\* file (the one part of the file's state that the primitives report back)
LenAfter(calls) ==
  IF Len(calls) = 1 /\ calls[1].op = "poll_set_len" /\ calls[1].res.st = "Ready"
  THEN calls[1].arg.n ELSE flen
Cloned(calls) ==
  Len(calls) = 1 /\ calls[1].op = "poll_try_clone" /\ calls[1].res.st = "Ready"

\* a completed try-clone needs an unused handle
CanAnswer(obj, op, ans) ==
  (op = "poll_try_clone" /\ ans = "Ready" /\ BaseOf(obj) # 0) => nextH <= MaxHandles

\* ----------------------------------------------------------------- Init
Init ==
  /\ owned = {[obj |-> File(1), by |-> 0]}
  /\ nextCid = 1
  /\ nextH = 2
  /\ closed = [h \in Handles |-> 0]
  /\ flen = 0
  /\ origin = [c \in Cids |-> [over |-> 0, after |-> 0, recv |-> None]]
  /\ trace = <<>>
  /\ called = NoCall

\* ------------------------------------------------ chain-starting methods
\* variant: the method starts the operation at once instead of deferring it
\* to the first poll
NewComp_Eager(item, kind, param) ==
  /\ item \in owned
  /\ called = NoCall
  /\ nextCid <= MaxComps
  /\ owned' = (owned \ {item})
       \cup {[obj |-> Comp(kind, nextCid, param, item.obj), by |-> 0]}
  /\ origin' = [origin EXCEPT ![nextCid] =
       [over |-> IF IsComp(item.obj) THEN item.obj.cid ELSE 0,
        after |-> item.by, recv |-> item.obj]]
  /\ nextCid' = nextCid + 1
  /\ called' = NoCall
  /\ flen' = IF kind = "SetLen" /\ BaseOf(item.obj) # 0 THEN param.n ELSE flen
  /\ UNCHANGED <<nextH, closed, trace>>

\* `Kind { param, inner: Some(self) }`: the receiver moves into the slot
NewComp(item, kind, param) ==
  /\ item \in owned
  /\ called = NoCall
  /\ nextCid <= MaxComps
  /\ owned' = (owned \ {item})
       \cup {[obj |-> Comp(kind, nextCid, param, item.obj), by |-> 0]}
  /\ origin' = [origin EXCEPT ![nextCid] =
       [over |-> IF IsComp(item.obj) THEN item.obj.cid ELSE 0,
        after |-> item.by, recv |-> item.obj]]
  /\ nextCid' = nextCid + 1
  /\ called' = NoCall
  /\ UNCHANGED <<nextH, closed, flen, trace>>

seek(item, pos) == NewComp(item, "Seek", pos)
sync_all(item) == NewComp(item, "SyncAll", Unit)
sync_data(item) == NewComp(item, "SyncData", Unit)
set_len(item, size) == NewComp(item, "SetLen", size)
metadata(item) == NewComp(item, "GetMetadata", Unit)
try_clone(item) == NewComp(item, "TryClone", Unit)
set_permissions(item, perm) == NewComp(item, "SetPermissions", perm)

\* ---------------------------------------------------------------- polls
\* variant: the slot is one cell shared by all futures, so the take of one
\* poll empties the slot of every other future as well
Poll_SharedSlot(item, kind, ans) ==
  /\ item \in owned
  /\ item.obj.tag = kind
  /\ called = NoCall
  /\ Len(trace) < MaxPolls
  /\ CanAnswer(item.obj, PollOp(kind), ans)
  /\ LET p == PollOnce(item.obj, ans)
         yielded == IF p.ret.obj = None THEN {}
                    ELSE {[obj |-> p.ret.obj, by |-> item.obj.cid]}
         clone == IF p.ret.val.k = "file"
                  THEN {[obj |-> File(p.ret.val.h), by |-> 0]} ELSE {}
         others == {IF IsComp(o.obj) THEN [o EXCEPT !.obj.inner = None] ELSE o :
                      o \in owned \ {item}}
     IN /\ owned' = others \cup {[item EXCEPT !.obj = p.self]}
                      \cup yielded \cup clone
        /\ closed' = Release(p.dropped, closed)
        /\ flen' = LenAfter(p.calls)
        /\ nextH' = IF Cloned(p.calls) THEN nextH + 1 ELSE nextH
        /\ trace' = Append(trace,
             [ev |-> "poll", cid |-> item.obj.cid, op |-> PollOp(kind),
              arg |-> PollArg(item.obj), pre |-> item.obj, post |-> p.self,
              ret |-> p.ret, calls |-> p.calls])
  /\ called' = NoCall
  /\ UNCHANGED <<nextCid, origin>>

\* the caller polls a future it owns; the runtime answers ans
Poll(item, kind, ans) ==
  /\ item \in owned
  /\ item.obj.tag = kind
  /\ called = NoCall
  /\ Len(trace) < MaxPolls
  /\ CanAnswer(item.obj, PollOp(kind), ans)
  /\ LET p == PollOnce(item.obj, ans)
         yielded == IF p.ret.obj = None THEN {}
                    ELSE {[obj |-> p.ret.obj, by |-> item.obj.cid]}
         clone == IF p.ret.val.k = "file"
                  THEN {[obj |-> File(p.ret.val.h), by |-> 0]} ELSE {}
     IN /\ owned' = (owned \ {item}) \cup {[item EXCEPT !.obj = p.self]}
                      \cup yielded \cup clone
        /\ closed' = Release(p.dropped, closed)
        /\ flen' = LenAfter(p.calls)
        /\ nextH' = IF Cloned(p.calls) THEN nextH + 1 ELSE nextH
        /\ trace' = Append(trace,
             [ev |-> "poll", cid |-> item.obj.cid, op |-> PollOp(kind),
              arg |-> PollArg(item.obj), pre |-> item.obj, post |-> p.self,
              ret |-> p.ret, calls |-> p.calls])
  /\ called' = NoCall
  /\ UNCHANGED <<nextCid, origin>>

Seek_poll(item, ans) == Poll(item, "Seek", ans)
SyncAll_poll(item, ans) == Poll(item, "SyncAll", ans)
SyncData_poll(item, ans) == Poll(item, "SyncData", ans)
SetLen_poll(item, ans) == Poll(item, "SetLen", ans)
GetMetadata_poll(item, ans) == Poll(item, "GetMetadata", ans)
TryClone_poll(item, ans) == Poll(item, "TryClone", ans)
SetPermissions_poll(item, ans) == Poll(item, "SetPermissions", ans)

\* the caller calls a poll_* method of a value it owns (a File or a future)
CallPrim(item, op, arg, ans) ==
  /\ item \in owned
  /\ called = NoCall
  /\ CanAnswer(item.obj, op, ans)
  /\ LET r == Forward(item.obj, op, arg, ans)
     IN /\ owned' = (owned \ {item}) \cup {[item EXCEPT !.obj = r.obj]}
        /\ flen' = LenAfter(r.calls)
        /\ nextH' = IF Cloned(r.calls) THEN nextH + 1 ELSE nextH
        /\ called' =
             [ev |-> "call", cid |-> IF IsComp(item.obj) THEN item.obj.cid ELSE 0,
              op |-> op, arg |-> arg, pre |-> item.obj, post |-> r.obj,
              ret |-> [st |-> r.res.st, val |-> r.res.val, obj |-> None],
              calls |-> r.calls]
  /\ UNCHANGED <<nextCid, closed, origin, trace>>

\* cancellation: the caller drops a future that has not completed (one it
\* never polled, or whose polls all returned not-yet-complete)
Drop(item) ==
  /\ item \in owned
  /\ IsComp(item.obj)
  /\ \A j \in 1..Len(PollsOf(item.obj.cid)) :
       PollsOf(item.obj.cid)[j].ret.st = "NotReady"
  /\ called = NoCall
  /\ owned' = owned \ {item}
  /\ closed' = Release(item.obj, closed)
  /\ called' = NoCall
  /\ UNCHANGED <<nextCid, nextH, flen, origin, trace>>

\* the caller lets go of the Poll value a poll_* call returned; a File in
\* it (the clone of a completed poll_try_clone) is dropped with it
Forget ==
  /\ called # NoCall
  /\ called' = NoCall
  /\ closed' = IF called.ret.val.k = "file"
               THEN Release(File(called.ret.val.h), closed) ELSE closed
  /\ UNCHANGED <<owned, nextCid, nextH, flen, origin, trace>>

Next ==
  \/ \E item \in owned, n \in Sizes : seek(item, Pos(n))
  \/ \E item \in owned : sync_all(item)
  \/ \E item \in owned : sync_data(item)
  \/ \E item \in owned, n \in Sizes : set_len(item, Size(n))
  \/ \E item \in owned : metadata(item)
  \/ \E item \in owned : try_clone(item)
  \/ \E item \in owned, ro \in BOOLEAN : set_permissions(item, Perm(ro))
  \/ \E item \in owned, ans \in Answers : Seek_poll(item, ans)
  \/ \E item \in owned, ans \in Answers : SyncAll_poll(item, ans)
  \/ \E item \in owned, ans \in Answers : SyncData_poll(item, ans)
  \/ \E item \in owned, ans \in Answers : SetLen_poll(item, ans)
  \/ \E item \in owned, ans \in Answers : GetMetadata_poll(item, ans)
  \/ \E item \in owned, ans \in Answers : TryClone_poll(item, ans)
  \/ \E item \in owned, ans \in Answers : SetPermissions_poll(item, ans)
  \/ \E item \in owned : Drop(item)

\* the caller constructs futures, polls them to drive them and drops values
Spec == Init /\ [][Next]_vars

\* the caller uses the values it constructs as AsyncFile values only: it
\* calls their poll_* methods, never Future::poll
NextCall ==
  \/ \E item \in owned, n \in Sizes : seek(item, Pos(n))
  \/ \E item \in owned : sync_all(item)
  \/ \E item \in owned : sync_data(item)
  \/ \E item \in owned, n \in Sizes : set_len(item, Size(n))
  \/ \E item \in owned : metadata(item)
  \/ \E item \in owned : try_clone(item)
  \/ \E item \in owned, ro \in BOOLEAN : set_permissions(item, Perm(ro))
  \/ \E item \in owned, op \in Ops, ans \in Answers :
       \E arg \in ArgsOf(op) : CallPrim(item, op, arg, ans)
  \/ \E item \in owned : Drop(item)
  \/ Forget

SpecCall == Init /\ [][NextCall]_vars

\* the state of the example when its try_clone step has completed: the
\* caller owns the file and the clone that step yielded, and goes on with
\* both (`file.try_clone().and_then(|(file, _file2)| ...)`)
InitPair ==
  /\ owned = {[obj |-> File(1), by |-> 0], [obj |-> File(2), by |-> 0]}
  /\ nextCid = 1
  /\ nextH = 3
  /\ closed = [h \in Handles |-> 0]
  /\ flen = 0
  /\ origin = [c \in Cids |-> [over |-> 0, after |-> 0, recv |-> None]]
  /\ trace = <<>>
  /\ called = NoCall

\* the caller constructs futures on both handles and polls them in any order
NextPair ==
  \/ \E item \in owned : sync_all(item)
  \/ \E item \in owned, n \in Sizes : set_len(item, Size(n))
  \/ \E item \in owned : metadata(item)
  \/ \E item \in owned, ans \in Answers : SyncAll_poll(item, ans)
  \/ \E item \in owned, ans \in Answers : SetLen_poll(item, ans)
  \/ \E item \in owned, ans \in Answers : GetMetadata_poll(item, ans)

SpecPair == InitPair /\ [][NextPair]_vars

TypeOK ==
  /\ nextCid \in 1..(MaxComps + 1)
  /\ nextH \in 2..(MaxHandles + 1)
  /\ flen \in {0} \cup Sizes
  /\ \A h \in Handles : closed[h] \in Nat

\* ------------------------------------------------------------ properties
\* all futures inside the values the caller owns, nested ones included
Futures ==
  UNION {{Layers(item.obj)[i] : i \in 1..Len(Layers(item.obj))} : item \in owned}

\* number of owners of handle h among the caller's values
Holders(h) == Cardinality({item \in owned : BaseOf(item.obj) = h})

Opened == 1..(nextH - 1)

\* a poll whose primitive was attempted and answered st
Answered(e, st) == Len(e.calls) = 1 /\ e.calls[1].res.st = st

\* C1: every future that exists and whose polls so far all returned
\* not-yet-complete (so it has returned neither a result nor a failure) has
\* its ownership slot populated.
C1_HoldingSlotPopulated ==
  \A c \in Futures :
    (\A j \in 1..Len(PollsOf(c.cid)) : PollsOf(c.cid)[j].ret.st = "NotReady")
      => c.inner # None

\* C2: a poll that follows only not-yet-complete polls of the same future
\* does not abort: it attempts the primitive once and returns what a first
\* poll would return for that answer (the value given at construction on
\* completion, the error on failure).
C2_RepollReachesResult ==
  \A c \in Cids :
    LET ps == PollsOf(c) IN
    \A i \in 2..Len(ps) :
      (\A j \in 1..(i - 1) : ps[j].ret.st = "NotReady")
        => /\ Len(ps[i].calls) = 1
           /\ ps[i].ret.st = ps[i].calls[1].res.st
           /\ (ps[i].ret.st = "Ready" => ps[i].ret.obj = ps[1].pre.inner)

\* the primitive that belongs to each kind of future by its name and
\* constructor (sync_data -> SyncData -> poll_sync_data)
PrimitiveOf(kind) ==
  CASE kind = "Seek" -> "poll_seek"
    [] kind = "SyncAll" -> "poll_sync_all"
    [] kind = "SyncData" -> "poll_sync_data"
    [] kind = "SetLen" -> "poll_set_len"
    [] kind = "GetMetadata" -> "poll_metadata"
    [] kind = "TryClone" -> "poll_try_clone"
    [] kind = "SetPermissions" -> "poll_set_permissions"

\* C3: every primitive call made on a file handle by the poll of a future
\* is the primitive of that future's kind; a SyncData poll calls
\* poll_sync_data and never poll_sync_all.
C3_OwnPrimitive ==
  \A i \in 1..Len(trace) :
    \A k \in 1..Len(trace[i].calls) :
      trace[i].calls[k].op = PrimitiveOf(trace[i].pre.tag)

\* C4: single ownership: an opened handle is held by exactly one of the
\* caller's values unless it was released, and then by none; a poll that
\* leaves its future in Holding (not-yet-complete) leaves the handle held by
\* that future; handles come into being only by completed try-clones.
C4_SingleOwner ==
  /\ \A h \in Opened : Holders(h) + closed[h] = 1
  /\ \A i \in 1..Len(trace) :
       (trace[i].ret.st = "NotReady") => BaseOf(trace[i].post) = BaseOf(trace[i].pre)
  /\ nextH - 2 = Cardinality({i \in 1..Len(trace) :
                    Answered(trace[i], "Ready") /\ trace[i].calls[1].op = "poll_try_clone"})

\* future a has completed successfully before position i of the history
CompletedBefore(a, i) ==
  \E j \in 1..(i - 1) : trace[j].cid = a /\ Answered(trace[j], "Ready")

\* C5 as stated: for B chained after A, in either way of chaining (B
\* constructed on the value A's poll yielded, or on the future A itself),
\* no poll of B invokes a primitive before A's primitive has completed.
C5_OrderingAnyChain ==
  \A i \in 1..Len(trace) :
    LET b == trace[i].cid IN
    (Len(trace[i].calls) > 0) =>
      /\ origin[b].after # 0 => CompletedBefore(origin[b].after, i)
      /\ origin[b].over # 0 => CompletedBefore(origin[b].over, i)

\* C5 amended: for B constructed on the value that a poll of A yielded, no
\* poll of B invokes a primitive before A's primitive has completed.
C5_OrderingYielded ==
  \A i \in 1..Len(trace) :
    (Len(trace[i].calls) > 0 /\ origin[trace[i].cid].after # 0)
      => CompletedBefore(origin[trace[i].cid].after, i)

C5_Witness ==
  \E i \in 1..Len(trace) :
    /\ Len(trace[i].calls) > 0
    /\ origin[trace[i].cid].after # 0
    /\ trace[i].calls[1].h = 1

\* C6: once the primitive invoked by a poll of a future has failed on a
\* handle, no later poll invokes any primitive on that handle.
C6_FailureShortCircuits ==
  \A i \in 1..Len(trace) :
    Answered(trace[i], "Err") =>
      \A j \in (i + 1)..Len(trace) :
        \A k \in 1..Len(trace[j].calls) :
          trace[j].calls[k].h # trace[i].calls[1].h

\* A failed and a later operation B, constructed on A, was polled
C6_Witness ==
  \E i \in 1..Len(trace) :
    /\ Answered(trace[i], "Err")
    /\ \E j \in (i + 1)..Len(trace) : origin[trace[j].cid].over = trace[i].cid

\* C7: after a poll of a future has returned a result or a failure, no
\* later poll of that future invokes a primitive or returns a result or a
\* failure.
C7_TerminalOnce ==
  \A c \in Cids :
    LET ps == PollsOf(c) IN
    \A i \in 1..Len(ps) :
      (ps[i].ret.st \in {"Ready", "Err"}) =>
        \A j \in (i + 1)..Len(ps) :
          /\ ps[j].calls = <<>>
          /\ ps[j].ret.st \notin {"Ready", "Err"}

C7_Witness ==
  \E c \in Cids :
    /\ Len(PollsOf(c)) >= 2
    /\ PollsOf(c)[1].ret.st \in {"Ready", "Err"}

\* C8: a poll_* call on a value whose slots are all populated (d >= 0
\* futures around a file handle) invokes exactly that primitive, with that
\* argument, once on that file handle, returns exactly what the handle
\* returned and leaves the value as it was.
C8_PassThrough ==
  (called # NoCall /\ BaseOf(called.pre) # 0) =>
    /\ called.calls = <<[h |-> BaseOf(called.pre), op |-> called.op,
                         arg |-> called.arg,
                         res |-> [st |-> called.ret.st, val |-> called.ret.val]]>>
    /\ called.post = called.pre

C8_Witness ==
  /\ called # NoCall
  /\ Depth(called.pre) = 2
  /\ BaseOf(called.pre) # 0
  /\ called.op = "poll_sync_data"
  /\ called.ret.st = "Err"

\* C9: a poll whose primitive failed with e made that one attempt only,
\* returned exactly e, left the slot empty, and the handle is released: it
\* is closed and no value of the caller holds it.
C9_FailureReleases ==
  \A i \in 1..Len(trace) :
    Answered(trace[i], "Err") =>
      /\ trace[i].ret = [st |-> "Err", val |-> trace[i].calls[1].res.val,
                         obj |-> None]
      /\ trace[i].post.inner = None
      /\ closed[trace[i].calls[1].h] = 1
      /\ Holders(trace[i].calls[1].h) = 0

C9_Witness ==
  \E i \in 1..Len(trace) :
    /\ Answered(trace[i], "Err")
    /\ trace[i].ret.val = IoError("PermissionDenied")
    /\ Depth(trace[i].pre) = 2

\* C10: a poll reports a failure exactly when its primitive failed in that
\* same poll; over all polls of one future at most one reports a failure,
\* and never one a failure and another a result.
C10_FailureOnce ==
  \A c \in Cids :
    LET ps == PollsOf(c) IN
    /\ \A i \in 1..Len(ps) : (ps[i].ret.st = "Err") <=> Answered(ps[i], "Err")
    /\ Cardinality({i \in 1..Len(ps) : ps[i].ret.st = "Err"}) <= 1
    /\ ~ (\E i, j \in 1..Len(ps) : ps[i].ret.st = "Err" /\ ps[j].ret.st = "Ready")

C10_Witness ==
  \E c \in Cids :
    /\ Len(PollsOf(c)) = 2
    /\ PollsOf(c)[1].ret.st = "Err"

\* the futures that return the pair (handle, value)
ValueKinds == {"Seek", "GetMetadata", "TryClone"}

\* C11: a poll whose primitive completed returns the very value the future
\* was constructed on and leaves the slot empty; Seek, GetMetadata and
\* TryClone return with it exactly the value the primitive yielded, SyncAll,
\* SyncData, SetLen and SetPermissions the handle alone.
C11_CompletionReturnsHandle ==
  \A i \in 1..Len(trace) :
    Answered(trace[i], "Ready") =>
      /\ trace[i].ret.st = "Ready"
      /\ trace[i].ret.obj = origin[trace[i].cid].recv
      /\ BaseOf(trace[i].ret.obj) = trace[i].calls[1].h
      /\ trace[i].post.inner = None
      /\ trace[i].ret.val = IF trace[i].pre.tag \in ValueKinds
                            THEN trace[i].calls[1].res.val ELSE Unit

C11_Witness ==
  \E i, j \in 1..Len(trace) :
    /\ Answered(trace[i], "Ready") /\ trace[i].pre.tag = "TryClone"
    /\ Answered(trace[j], "Ready") /\ trace[j].pre.tag = "SetLen"

\* C12: a step that constructs a future (seek, sync_all, sync_data, set_len,
\* metadata, try_clone, set_permissions) invokes no primitive and leaves the
\* file as it was: no poll event and no call is recorded, the length, the
\* opened and the closed handles are unchanged; the step only replaces the
\* receiver by the new future, whose slot holds the receiver and whose
\* parameter is the one given.
C12_ConstructionDefers ==
  [][nextCid' # nextCid =>
       /\ trace' = trace /\ called' = called
       /\ flen' = flen /\ closed' = closed /\ nextH' = nextH
       /\ \E item \in owned : \E kind \in Kinds : \E param \in ArgsOf(PrimitiveOf(kind)) :
            /\ owned' = (owned \ {item}) \cup
                 {[obj |-> [tag |-> kind, cid |-> nextCid, param |-> param,
                            inner |-> item.obj], by |-> 0]}
            /\ PollsOf(nextCid)' = <<>>]_vars

\* a SetLen future constructed and not yet polled while the file keeps its length
C12_Witness ==
  \E item \in owned :
    /\ IsComp(item.obj) /\ item.obj.tag = "SetLen" /\ item.obj.param = Size(1)
    /\ BaseOf(item.obj) # 0
    /\ PollsOf(item.obj.cid) = <<>>
    /\ flen = 0

\* C13: a step that drops a future which has not reached a terminal state
\* (never polled, or every poll of it returned NotReady) closes exactly the
\* handle the future holds at that moment (none when its slot is empty),
\* leaves every other handle as it was and invokes no primitive; and no
\* handle is ever closed more than once.
C13_Cancellation ==
  /\ [][(owned' # owned /\ nextCid' = nextCid /\ trace' = trace) =>
          \E item \in owned :
            /\ IsComp(item.obj)
            /\ \A j \in 1..Len(PollsOf(item.obj.cid)) :
                 PollsOf(item.obj.cid)[j].ret.st = "NotReady"
            /\ owned' = owned \ {item}
            /\ \A h \in Handles :
                 closed'[h] = IF h = BaseOf(item.obj) THEN closed[h] + 1
                              ELSE closed[h]
            /\ flen' = flen /\ nextH' = nextH /\ called' = called]_vars
  /\ [](\A h \in Handles : closed[h] <= 1)

\* a future that was never polled has been dropped and its handle is closed
C13_Witness ==
  /\ trace = <<>>
  /\ nextCid > 1
  /\ closed[1] = 1
  /\ Holders(1) = 0

\* C14: with futures on the original and on the clone, polled in any order, a
\* poll step touches only the polled future: every other value the caller
\* owns, and every handle but the polled future's own, is after the step what
\* it was before, and the primitive runs on the polled future's handle only.
\* So each future meets its polls as it would alone: at its first poll its
\* slot and parameter are those of its construction, at each later poll those
\* its previous poll left, and each result is the one its own primitive
\* answer decides.
C14_PollsIndependent ==
  /\ [][Len(trace') > Len(trace) =>
          LET e == trace'[Len(trace')] IN
            /\ \A item \in owned : item.obj # e.pre => item \in owned'
            /\ \A k \in 1..Len(e.calls) : e.calls[k].h = BaseOf(e.pre)
            /\ \A h \in Handles : h # BaseOf(e.pre) => closed'[h] = closed[h]
            /\ \A c \in Cids : c # e.cid => PollsOf(c)' = PollsOf(c)]_vars
  /\ [](\A c \in Cids :
          LET ps == PollsOf(c) IN
            \A i \in 1..Len(ps) :
              /\ i = 1 => ps[i].pre = [tag |-> ps[i].pre.tag, cid |-> c,
                                       param |-> ps[i].arg,
                                       inner |-> origin[c].recv]
              /\ i > 1 => ps[i].pre = ps[i-1].post
              /\ ps[i].post.param = ps[i].pre.param
              /\ Len(ps[i].calls) = 1 => ps[i].ret.st = ps[i].calls[1].res.st)

\* the future on the clone was polled between the construction and the poll
\* of the future on the original
C14_Witness ==
  /\ Len(trace) = 2
  /\ trace[1].cid = 2 /\ trace[2].cid = 1
  /\ BaseOf(trace[1].pre) = 2 /\ BaseOf(trace[2].pre) = 1
  /\ trace[1].ret.st = "NotReady" /\ trace[2].ret.st = "Ready"

\* the metadata a GetMetadata future reports after a SetLen future completed
\* on the same handle, with no change of length between the two completions
SizeReported ==
  \A i, j \in 1..Len(trace) :
    ( /\ i < j
      /\ trace[i].pre.tag = "SetLen" /\ trace[i].ret.st = "Ready"
      /\ trace[j].pre.tag = "GetMetadata" /\ trace[j].ret.st = "Ready"
      /\ origin[trace[j].cid].after = trace[i].cid
      /\ \A k \in (i+1)..(j-1) : \A m \in 1..Len(trace[k].calls) :
           ~(trace[k].calls[m].op = "poll_set_len"
             /\ trace[k].calls[m].res.st = "Ready") )
    => trace[j].ret.val = Meta(trace[i].pre.param.n)

\* C15: a SetLen future with size n and the GetMetadata future constructed
\* from the handle it returned each complete on the poll whose primitive is
\* ready, however many of their polls returned NotReady before, and the
\* metadata then reported has size n.
C15_SetLenThenMetadata ==
  /\ \A c \in Cids :
       LET ps == PollsOf(c) IN
         \A i \in 1..Len(ps) :
           ( /\ ps[1].pre.tag \in {"SetLen", "GetMetadata"}
             /\ BaseOf(origin[c].recv) # 0
             /\ \A j \in 1..(i-1) : ps[j].ret.st = "NotReady" )
           => /\ Len(ps[i].calls) = 1
              /\ ps[i].calls[1].res.st = "Ready" => ps[i].ret.st = "Ready"
  /\ SizeReported

\* C16: when a poll_* method (any of the seven) is called on a future (of any
\* kind) whose slot is populated and the call returns, whatever it returns
\* (completed, not yet complete, failed), the slot of the future holds
\* the value it held before the call, the same at every depth of nesting, and
\* kind, identity and stored parameter are unchanged; the caller still owns it.
C16_DelegationRestoresSlot ==
  ( /\ called # NoCall
    /\ IsComp(called.pre)
    /\ called.pre.inner # None
    /\ called.ret.st \in {"Ready", "NotReady", "Err"} )
  => /\ IsComp(called.post)
     /\ called.post.inner # None
     /\ called.post.inner = called.pre.inner
     /\ called.post.param = called.pre.param
     /\ called.post.tag = called.pre.tag /\ called.post.cid = called.pre.cid
     /\ Len(Layers(called.post)) = Len(Layers(called.pre))
     /\ \A i \in 1..Len(Layers(called.pre)) :
          /\ Layers(called.post)[i].inner = Layers(called.pre)[i].inner
          /\ Layers(called.post)[i].param = Layers(called.pre)[i].param
     /\ \E item \in owned : item.obj = called.post

\* poll_seek called on a SetPermissions future over a SetLen future over the
\* file returned not yet complete
C16_Witness ==
  /\ called # NoCall
  /\ called.pre.tag = "SetPermissions"
  /\ called.pre.inner.tag = "SetLen"
  /\ called.pre.inner.inner.tag = "File"
  /\ called.op = "poll_seek"
  /\ called.ret.st = "NotReady"

\* no poll invokes more than one primitive, the one it invokes gets the
\* stored parameter, and the stored parameter survives the poll
AtMostOneAttempt ==
  \A i \in 1..Len(trace) :
    /\ Len(trace[i].calls) <= 1
    /\ \A k \in 1..Len(trace[i].calls) :
         /\ trace[i].calls[k].arg = trace[i].pre.param
         /\ trace[i].calls[k].h = BaseOf(trace[i].pre)
    /\ trace[i].post.param = trace[i].pre.param

\* C17: every poll of a future that is still in Holding (constructed on a
\* value that holds a handle, every earlier poll of it returned NotReady)
\* invokes exactly one primitive on the base handle, and passes the
\* parameter stored at construction, the same on every poll; polling never
\* changes the stored parameter.
C17_OneAttemptPerPoll ==
  /\ AtMostOneAttempt
  /\ \A c \in Cids :
       LET ps == PollsOf(c) IN
         \A i \in 1..Len(ps) :
           ( /\ BaseOf(origin[c].recv) # 0
             /\ \A j \in 1..(i-1) : ps[j].ret.st = "NotReady" )
           => /\ Len(ps[i].calls) = 1
              /\ ps[i].calls[1].h = BaseOf(origin[c].recv)
              /\ ps[i].calls[1].arg = ps[1].pre.param
              /\ ps[i].post.param = ps[1].pre.param

\* the first polls of futures constructed directly on a future that holds a
\* handle (the inner future cannot have been polled: the outer one owns it)
OverFuture(e) ==
  /\ origin[e.cid].over # 0
  /\ e = PollsOf(e.cid)[1]
  /\ BaseOf(e.pre) # 0

\* such a poll reaches the base handle once, through the inner future, and on
\* completion yields the inner future, its slot still holding the handle
YieldsInnerFuture ==
  \A i \in 1..Len(trace) :
    OverFuture(trace[i]) =>
      /\ Len(trace[i].calls) = 1
      /\ trace[i].calls[1].h = BaseOf(trace[i].pre)
      /\ trace[i].ret.st = "Ready" =>
           /\ IsComp(trace[i].ret.obj)
           /\ trace[i].ret.obj.cid = origin[trace[i].cid].over
           /\ trace[i].ret.obj = origin[trace[i].cid].recv
           /\ trace[i].ret.obj.inner # None
           /\ BaseOf(trace[i].ret.obj) = trace[i].calls[1].h
           /\ \A j \in 1..i : trace[j].cid # trace[i].ret.obj.cid

\* C18: polling a future B constructed directly on a not yet polled future A
\* invokes B's primitive, and only it, on the base handle; A's primitive is
\* not invoked; when B completes it yields A, in Holding, its slot holding
\* the base handle.
C18_OuterOverInner ==
  /\ YieldsInnerFuture
  /\ \A i \in 1..Len(trace) :
       OverFuture(trace[i]) =>
         \A k \in 1..Len(trace[i].calls) :
           /\ trace[i].calls[k].op = PrimitiveOf(trace[i].pre.tag)
           /\ trace[i].pre.inner.tag # trace[i].pre.tag =>
                trace[i].calls[k].op # PrimitiveOf(trace[i].pre.inner.tag)

====
